---- MODULE Spec2Model ----
(***************************************************************************)
(* Model of the storage layer of bandersnatch:                             *)
(*   - the atomic write protocol of FilesystemStorage (rewrite,            *)
(*     update_safe, compare_files, copy_file) run by concurrent writer     *)
(*     processes next to a reader that opens the target by name;           *)
(*   - the plugin registry (load_storage_plugins, Storage.__init__);       *)
(*   - FilesystemStorage.rmdir on directory trees.                         *)
(***************************************************************************)
EXTENDS Integers, Sequences, FiniteSets, TLC

(***************************************************************************)
(* Bounds of the model.                                                    *)
(***************************************************************************)
MaxLen == 2

Byte == {"x", "y"}

\* the file contents the model draws from: runs of one byte of at most
\* MaxLen bytes, so that every proper prefix of a content and every mixture
\* of two contents is told apart from what was meant to be written
Contents == {[i \in 1..n |-> b] : n \in 1..MaxLen, b \in Byte}

\* the writer processes (mirror workers); tempfile draws the random infix
\* of a temporary name from a per-process generator, and the model gives
\* each process the one infix it draws
Writers == {"w1", "w2"}

Rnd == [w1 |-> "k1", w2 |-> "k2"]

(***************************************************************************)
(* Paths.  A path is a record of its parent directory and its basename;    *)
(* a basename is a sequence of pieces so that prefixes can be inspected.   *)
(***************************************************************************)
Target == [dir |-> "web/json", name |-> <<"T">>]

NoPath == [dir |-> "", name |-> <<>>]

dirname(path) == path.dir

basename(path) == path.name

\* permission bits: 0o600 is what tempfile gives a new file, 0o100644 is
\* the mode rewrite passes to chmod, 0o7777 + 1 is the modulus of "& 0o7777"
TmpMode == 384

RewriteMode == 33188

PermMask == 4096

\* permission bits an existing target starts with (0o640)
InitModes == {416}

VARIABLES
  fs,        \* directory entries: path -> inode number
  inodes,    \* inode table: sequence of [content, mode]
  proc,      \* per writer: the locals of rewrite / update_safe and its position
  hist,      \* per writer: history of the call (for stating properties only)
  renames,   \* history: the writers whose os.rename succeeded, in order
  rd,        \* the reader: position, open inode, bytes read so far
  orig,      \* history: what the target was in the initial state
  config,    \* configuration: the storage_backend option, or "unset"
  entry_points,            \* installed entry points: group -> plugin classes
  loaded_storage_plugins,  \* the module-level cache: group -> instances
  calls,     \* history: the load_storage_plugins calls made, in order
  tree,      \* the directory tree under the mirror root: path -> "dir" | "file"
  last,      \* history: the last removal call, its arguments and its outcome
  jp         \* a get_json_paths call: the instance, the name and the result

wvars == <<fs, inodes, proc, hist, renames, rd, orig>>

rvars == <<config, entry_points, loaded_storage_plugins, calls>>

tvars == <<tree, last>>

pvars == <<jp>>

vars == <<fs, inodes, proc, hist, renames, rd, orig,
          config, entry_points, loaded_storage_plugins, calls, tree, last,
          jp>>

(***************************************************************************)
(* Filesystem primitives.                                                  *)
(***************************************************************************)
exists(path) == path \in DOMAIN fs

\* what a stat + full read of path would give
Snap(path) ==
  IF exists(path)
  THEN [exists |-> TRUE, ino |-> fs[path],
        content |-> inodes[fs[path]].content, mode |-> inodes[fs[path]].mode]
  ELSE [exists |-> FALSE, ino |-> 0, content |-> <<>>, mode |-> 0]

\* variant: compares the two names instead of what they hold
compare_files_paths(file1, file2) == file1 = file2

\* filecmp.cmp(file1, file2, shallow=False): byte for byte comparison
compare_files(file1, file2) ==
  inodes[fs[file1]].content = inodes[fs[file2]].content

\* variant: a rename that does not replace an existing dest
Renamed_noreplace(source, dest) ==
  IF dest \in DOMAIN fs
  THEN fs
  ELSE [q \in (DOMAIN fs \ {source}) \cup {dest} |->
          IF q = dest THEN fs[source] ELSE fs[q]]

\* os.rename(source, dest) on the directory: dest now names source's inode
Renamed(source, dest) ==
  [q \in (DOMAIN fs \ {source}) \cup {dest} |->
     IF q = dest THEN fs[source] ELSE fs[q]]

Unlinked(path) == [q \in DOMAIN fs \ {path} |-> fs[q]]

\* os.chmod(path, mode) on the inode table
Chmodded(path, mode) ==
  [inodes EXCEPT ![fs[path]].mode = mode % PermMask]

\* name of the temporary file: prefix + random infix, in the target's directory
RewriteTmp(filepath, r) ==
  [dir |-> dirname(filepath),
   name |-> <<".">> \o basename(filepath) \o <<".">> \o <<r>>]

UpdateSafeTmp(filename, r) ==
  [dir |-> dirname(filename),
   name |-> basename(filename) \o <<".">> \o <<r>>]

Terminal == {"done", "raised"}

IdleProc == [pc |-> "idle", op |-> "none", data |-> <<>>, tmp |-> NoPath,
             fd |-> 0, has_changed |-> "unset", err |-> "none"]

IdleHist == [pre |-> [exists |-> FALSE, ino |-> 0, content |-> <<>>, mode |-> 0],
             after |-> {}, deleted |-> FALSE, renamed |-> FALSE]

\* variant: the handle is opened on the target's own name
NamedTemporaryFile_inplace(p, o, x, name) ==
  /\ inodes' = Append(inodes, [content |-> <<>>, mode |-> TmpMode])
  /\ fs' = [q \in DOMAIN fs \cup {Target} |->
              IF q = Target THEN Len(inodes) + 1 ELSE fs[q]]
  /\ proc' = [proc EXCEPT ![p] =
                [pc |-> IF o = "rewrite" THEN "block" ELSE "us_exists0",
                 op |-> o, data |-> x, tmp |-> Target, fd |-> Len(inodes) + 1,
                 has_changed |-> "unset", err |-> "none"]]
  /\ hist' = [hist EXCEPT ![p] =
                [pre |-> Snap(Target),
                 after |-> {q \in Writers : proc[q].pc \in Terminal},
                 deleted |-> FALSE, renamed |-> FALSE]]

(***************************************************************************)
(* tempfile.NamedTemporaryFile(prefix=..., delete=False, dir=...):         *)
(* creates a new empty file with mode 0o600 under a name not in use.       *)
(***************************************************************************)
NamedTemporaryFile(p, o, x, name) ==
  /\ ~exists(name)
  /\ inodes' = Append(inodes, [content |-> <<>>, mode |-> TmpMode])
  /\ fs' = [q \in DOMAIN fs \cup {name} |->
              IF q = name THEN Len(inodes) + 1 ELSE fs[q]]
  /\ proc' = [proc EXCEPT ![p] =
                [pc |-> IF o = "rewrite" THEN "block" ELSE "us_exists0",
                 op |-> o, data |-> x, tmp |-> name, fd |-> Len(inodes) + 1,
                 has_changed |-> "unset", err |-> "none"]]
  /\ hist' = [hist EXCEPT ![p] =
                [pre |-> Snap(Target),
                 after |-> {q \in Writers : proc[q].pc \in Terminal},
                 deleted |-> FALSE, renamed |-> FALSE]]

\* rewrite, lines 78-82: create the temporary file and yield it
rewrite_enter(p) ==
  /\ proc[p].pc = "idle"
  /\ \E x \in Contents :
       NamedTemporaryFile(p, "rewrite", x, RewriteTmp(Target, Rnd[p]))
  /\ UNCHANGED <<renames, rd, orig>>
  /\ UNCHANGED <<rvars, tvars, pvars>>

\* update_safe, lines 99-104: create the temporary file
update_safe_enter(p) ==
  /\ proc[p].pc = "idle"
  /\ \E x \in Contents :
       NamedTemporaryFile(p, "update_safe", x, UpdateSafeTmp(Target, Rnd[p]))
  /\ UNCHANGED <<renames, rd, orig>>
  /\ UNCHANGED <<rvars, tvars, pvars>>

\* variant: the temporary file keeps the mode it was created with
update_safe_chmod_skip(p) ==
  /\ proc[p].pc = "us_exists0"
  /\ proc' = [proc EXCEPT ![p].pc = "block", ![p].has_changed = "False"]
  /\ UNCHANGED <<fs, inodes, hist, renames, rd, orig>>
  /\ UNCHANGED <<rvars, tvars, pvars>>

\* update_safe, lines 105-108: copy the target's permission bits onto the
\* temporary file when the target exists, clear has_changed, yield
update_safe_chmod(p) ==
  /\ proc[p].pc = "us_exists0"
  /\ inodes' = IF exists(Target)
               THEN Chmodded(proc[p].tmp, Snap(Target).mode % PermMask)
               ELSE inodes
  /\ proc' = [proc EXCEPT ![p].pc = "block", ![p].has_changed = "False"]
  /\ UNCHANGED <<fs, hist, renames, rd, orig>>
  /\ UNCHANGED <<rvars, tvars, pvars>>

(***************************************************************************)
(* The caller's write block, run between the yield and the end of the      *)
(* with statement: it writes its data through the handle piece by piece    *)
(* and may delete the temporary file.                                      *)
(***************************************************************************)
block_write(p) ==
  /\ proc[p].pc = "block"
  /\ Len(inodes[proc[p].fd].content) < Len(proc[p].data)
  /\ inodes' = [inodes EXCEPT ![proc[p].fd].content =
                  Append(@, proc[p].data[Len(@) + 1])]
  /\ UNCHANGED <<fs, proc, hist, renames, rd, orig>>
  /\ UNCHANGED <<rvars, tvars, pvars>>

block_delete(p) ==
  /\ proc[p].pc = "block"
  /\ exists(proc[p].tmp)
  /\ fs' = Unlinked(proc[p].tmp)
  /\ hist' = [hist EXCEPT ![p].deleted = TRUE]
  /\ UNCHANGED <<inodes, proc, renames, rd, orig>>
  /\ UNCHANGED <<rvars, tvars, pvars>>

\* the block ends once all the data is written; the handle is closed
block_exit(p) ==
  /\ proc[p].pc = "block"
  /\ Len(inodes[proc[p].fd].content) = Len(proc[p].data)
  /\ proc' = [proc EXCEPT ![p].pc =
                IF proc[p].op = "rewrite" THEN "rw_exists" ELSE "us_exists1"]
  /\ UNCHANGED <<fs, inodes, hist, renames, rd, orig>>
  /\ UNCHANGED <<rvars, tvars, pvars>>

(***************************************************************************)
(* rewrite after the block, lines 84-89.                                   *)
(***************************************************************************)
\* variant: no test for a deleted temporary file
rewrite_exists_nocheck(p) ==
  /\ proc[p].pc = "rw_exists"
  /\ proc' = [proc EXCEPT ![p].pc = "rw_chmod"]
  /\ UNCHANGED <<fs, inodes, hist, renames, rd, orig>>
  /\ UNCHANGED <<rvars, tvars, pvars>>

rewrite_exists(p) ==
  /\ proc[p].pc = "rw_exists"
  /\ proc' = [proc EXCEPT ![p].pc =
                IF ~exists(proc[p].tmp) THEN "done" ELSE "rw_chmod"]
  /\ UNCHANGED <<fs, inodes, hist, renames, rd, orig>>
  /\ UNCHANGED <<rvars, tvars, pvars>>

rewrite_chmod(p) ==
  /\ proc[p].pc = "rw_chmod"
  /\ IF exists(proc[p].tmp)
     THEN /\ inodes' = Chmodded(proc[p].tmp, RewriteMode)
          /\ proc' = [proc EXCEPT ![p].pc = "cf_exists"]
     ELSE /\ inodes' = inodes
          /\ proc' = [proc EXCEPT ![p].pc = "raised",
                                  ![p].err = "FileNotFoundError"]
  /\ UNCHANGED <<fs, hist, renames, rd, orig>>
  /\ UNCHANGED <<rvars, tvars, pvars>>

(***************************************************************************)
(* update_safe after the block, lines 109-117.                             *)
(***************************************************************************)
update_safe_exists(p) ==
  /\ proc[p].pc = "us_exists1"
  /\ proc' = [proc EXCEPT ![p].pc =
                IF ~exists(proc[p].tmp) THEN "done" ELSE "us_compare"]
  /\ UNCHANGED <<fs, inodes, hist, renames, rd, orig>>
  /\ UNCHANGED <<rvars, tvars, pvars>>

update_safe_compare(p) ==
  /\ proc[p].pc = "us_compare"
  /\ proc' = [proc EXCEPT ![p].pc =
                IF exists(Target) /\ compare_files(Target, proc[p].tmp)
                THEN "us_unlink" ELSE "cf_exists"]
  /\ UNCHANGED <<fs, inodes, hist, renames, rd, orig>>
  /\ UNCHANGED <<rvars, tvars, pvars>>

\* variant: the temporary file is not removed
update_safe_unlink_skip(p) ==
  /\ proc[p].pc = "us_unlink"
  /\ proc' = [proc EXCEPT ![p].pc = "done"]
  /\ UNCHANGED <<fs, inodes, hist, renames, rd, orig>>
  /\ UNCHANGED <<rvars, tvars, pvars>>

update_safe_unlink(p) ==
  /\ proc[p].pc = "us_unlink"
  /\ fs' = Unlinked(proc[p].tmp)
  /\ proc' = [proc EXCEPT ![p].pc = "done"]
  /\ UNCHANGED <<inodes, hist, renames, rd, orig>>
  /\ UNCHANGED <<rvars, tvars, pvars>>

(***************************************************************************)
(* copy_file(source, dest), lines 125-128, called with the temporary file  *)
(* and the target; update_safe sets has_changed after it returns.          *)
(***************************************************************************)
copy_file_exists(p) ==
  /\ proc[p].pc = "cf_exists"
  /\ proc' = [proc EXCEPT
                ![p].pc = IF exists(proc[p].tmp) THEN "cf_rename" ELSE "raised",
                ![p].err = IF exists(proc[p].tmp) THEN @ ELSE "FileNotFoundError"]
  /\ UNCHANGED <<fs, inodes, hist, renames, rd, orig>>
  /\ UNCHANGED <<rvars, tvars, pvars>>

\* variant: the temporary file is cleaned up when os.rename raised
rename_failed_cleanup(p) ==
  /\ proc' = [proc EXCEPT ![p].pc = "raised", ![p].err = "OSError"]
  /\ fs' = IF exists(proc[p].tmp) THEN Unlinked(proc[p].tmp) ELSE fs
  /\ UNCHANGED <<hist, renames>>

\* what the caller of copy_file does when os.rename raised: nothing
rename_failed(p) ==
  /\ proc' = [proc EXCEPT ![p].pc = "raised", ![p].err = "OSError"]
  /\ UNCHANGED <<fs, hist, renames>>

\* variant: the temporary file is copied onto the target, not moved
copy_file_rename_copy(p) ==
  /\ proc[p].pc = "cf_rename"
  /\ exists(proc[p].tmp)
  /\ fs' = [q \in DOMAIN fs \cup {Target} |-> IF q = Target THEN fs[proc[p].tmp]
                                               ELSE fs[q]]
  /\ proc' = [proc EXCEPT
                ![p].pc = "done",
                ![p].has_changed =
                   IF proc[p].op = "update_safe" THEN "True" ELSE @]
  /\ hist' = [hist EXCEPT ![p].renamed = TRUE]
  /\ renames' = Append(renames, p)
  /\ UNCHANGED <<inodes, rd, orig>>
  /\ UNCHANGED <<rvars, tvars, pvars>>

copy_file_rename(p) ==
  /\ proc[p].pc = "cf_rename"
  /\ \E ok \in BOOLEAN :
       IF ok /\ exists(proc[p].tmp)
       THEN /\ fs' = Renamed(proc[p].tmp, Target)
            /\ proc' = [proc EXCEPT
                          ![p].pc = "done",
                          ![p].has_changed =
                             IF proc[p].op = "update_safe" THEN "True" ELSE @]
            /\ hist' = [hist EXCEPT ![p].renamed = TRUE]
            /\ renames' = Append(renames, p)
       ELSE rename_failed(p)
  /\ UNCHANGED <<inodes, rd, orig>>
  /\ UNCHANGED <<rvars, tvars, pvars>>

(***************************************************************************)
(* A reader: opens the target by its final name, then reads the open file  *)
(* piece by piece to the end.                                              *)
(***************************************************************************)
reader_open(r) ==
  /\ rd.pc = "idle"
  /\ rd' = IF exists(Target)
           THEN [pc |-> "reading", fd |-> fs[Target], buf |-> <<>>]
           ELSE [pc |-> "done", fd |-> 0, buf |-> <<>>]
  /\ UNCHANGED <<fs, inodes, proc, hist, renames, orig>>
  /\ UNCHANGED <<rvars, tvars, pvars>>

reader_read(r) ==
  /\ rd.pc = "reading"
  /\ rd' = IF Len(rd.buf) < Len(inodes[rd.fd].content)
           THEN [rd EXCEPT !.buf = Append(@, inodes[rd.fd].content[Len(@) + 1])]
           ELSE [rd EXCEPT !.pc = "done"]
  /\ UNCHANGED <<fs, inodes, proc, hist, renames, orig>>
  /\ UNCHANGED <<rvars, tvars, pvars>>


(***************************************************************************)
(* The plugin registry (storage.py).                                       *)
(***************************************************************************)
MaxCalls == 3

PLUGIN_API_REVISION == 1

\* f"bandersnatch_storage_plugins.v{PLUGIN_API_REVISION}.backend"
STORAGE_PLUGIN_RESOURCE ==
  <<"bandersnatch_storage_plugins.v", PLUGIN_API_REVISION, ".backend">>

\* the extension-point identifiers the model resolves: the current one and
\* the one of the next API revision
Groups ==
  {STORAGE_PLUGIN_RESOURCE,
   <<"bandersnatch_storage_plugins.v", PLUGIN_API_REVISION + 1, ".backend">>}

\* the installed plugin classes; a class is identified with its name attribute
Classes == {"filesystem", "swift"}

ConfigValues == {"unset"} \cup Classes

MirrorDirectory == <<"M">>

\* variant: every constructed instance is set up
Storage_init_any(cls, serial) ==
  [name |-> cls, serial |-> serial, bound |-> TRUE,
   mirror_base_path |-> MirrorDirectory,
   web_base_path |-> MirrorDirectory \o <<"web">>,
   json_base_path |-> MirrorDirectory \o <<"web", "json">>,
   pypi_base_path |-> MirrorDirectory \o <<"web", "pypi">>,
   simple_base_path |-> MirrorDirectory \o <<"web", "simple">>,
   initialized |-> 1]

\* Storage.__init__ of class cls; serial tells the instances of one class apart
Storage_init(cls, serial) ==
  LET storage_backend == IF config = "unset" THEN "filesystem" ELSE config
  IN IF storage_backend # cls
     THEN [name |-> cls, serial |-> serial, bound |-> FALSE,
           mirror_base_path |-> <<>>, web_base_path |-> <<>>,
           json_base_path |-> <<>>, pypi_base_path |-> <<>>,
           simple_base_path |-> <<>>, initialized |-> 0]
     ELSE [name |-> cls, serial |-> serial, bound |-> TRUE,
           mirror_base_path |-> MirrorDirectory,
           web_base_path |-> MirrorDirectory \o <<"web">>,
           json_base_path |-> MirrorDirectory \o <<"web", "json">>,
           pypi_base_path |-> MirrorDirectory \o <<"web", "pypi">>,
           simple_base_path |-> MirrorDirectory \o <<"web", "simple">>,
           initialized |-> 1]

\* number of discoveries made so far
Discoveries == Cardinality({k \in DOMAIN calls : calls[k].discovered})

\* "if cached_plugins:" - the cache has a non-empty list for the group
CacheHit(entrypoint_group) ==
  /\ entrypoint_group \in DOMAIN loaded_storage_plugins
  /\ loaded_storage_plugins[entrypoint_group] # {}

\* variant: every instantiated plugin is kept
Selected_any(plugin_instance, enabled_plugin) ==
  plugin_instance.name \in Classes

\* the filter of the discovery loop, line 271
Selected(plugin_instance, enabled_plugin) ==
  plugin_instance.name = enabled_plugin

load_storage_plugins(entrypoint_group) ==
  LET enabled_plugin == IF config = "unset" THEN "filesystem" ELSE config
      instances == {Storage_init(cls, Discoveries + 1) :
                      cls \in entry_points[entrypoint_group]}
      plugins == {i \in instances : Selected(i, enabled_plugin)}
  IN /\ Len(calls) < MaxCalls
     /\ IF CacheHit(entrypoint_group)
        THEN /\ calls' = Append(calls,
                  [group |-> entrypoint_group, enabled |-> enabled_plugin,
                   discovered |-> FALSE, serial |-> 0, scanned |-> 0,
                   made |-> {},
                   result |-> loaded_storage_plugins[entrypoint_group]])
             /\ UNCHANGED loaded_storage_plugins
        ELSE /\ loaded_storage_plugins' =
                  [g \in DOMAIN loaded_storage_plugins \cup {entrypoint_group} |->
                     IF g = entrypoint_group THEN plugins
                     ELSE loaded_storage_plugins[g]]
             /\ calls' = Append(calls,
                  [group |-> entrypoint_group, enabled |-> enabled_plugin,
                   discovered |-> TRUE, serial |-> Discoveries + 1,
                   scanned |-> Cardinality(instances), made |-> instances,
                   result |-> plugins])
     /\ UNCHANGED <<config, entry_points>>
     /\ UNCHANGED <<wvars, tvars, pvars>>

\* the collaborators: the configuration changes, entry points are installed
\* and removed
configure(b) ==
  /\ config # b
  /\ config' = b
  /\ UNCHANGED <<entry_points, loaded_storage_plugins, calls>>
  /\ UNCHANGED <<wvars, tvars, pvars>>

install_entry_point(g, cls) ==
  /\ cls \notin entry_points[g]
  /\ entry_points' = [entry_points EXCEPT ![g] = @ \cup {cls}]
  /\ UNCHANGED <<config, loaded_storage_plugins, calls>>
  /\ UNCHANGED <<wvars, tvars, pvars>>

remove_entry_point(g, cls) ==
  /\ cls \in entry_points[g]
  /\ entry_points' = [entry_points EXCEPT ![g] = @ \ {cls}]
  /\ UNCHANGED <<config, loaded_storage_plugins, calls>>
  /\ UNCHANGED <<wvars, tvars, pvars>>

RInit ==
  /\ config = "unset"
  /\ entry_points = [g \in Groups |-> {}]
  /\ loaded_storage_plugins = [g \in {} |-> {}]
  /\ calls = <<>>

RNext ==
  \/ \E g \in Groups : load_storage_plugins(g)
  \/ \E b \in ConfigValues : configure(b)
  \/ \E g \in Groups, cls \in Classes : install_entry_point(g, cls)
  \/ \E g \in Groups, cls \in Classes : remove_entry_point(g, cls)


(***************************************************************************)
(* Directory trees and FilesystemStorage.rmdir (filesystem.py).            *)
(* A path is the sequence of its components; tree maps every existing      *)
(* path to its kind.                                                       *)
(***************************************************************************)
MaxNodes == 3

Names == {"a", "b"}

Root == <<"root">>

\* the orders in which a directory can list its entries
NameOrders == {o \in [Names -> 1..Cardinality(Names)] :
                 \A m, n \in Names : m # n => o[m] # o[n]}

IsUnder(q, path) ==
  Len(q) > Len(path) /\ SubSeq(q, 1, Len(path)) = path

Children(t, path) ==
  {q \in DOMAIN t : Len(q) = Len(path) + 1 /\ IsUnder(q, path)}

Descendants(t, path) == {q \in DOMAIN t : IsUnder(q, path)}

is_dir(t, path) == path \in DOMAIN t /\ t[path] = "dir"

is_file(t, path) == path \in DOMAIN t /\ t[path] = "file"

Without(t, gone) == [q \in DOMAIN t \ gone |-> t[q]]

RECURSIVE Listing(_, _)
\* the entries S of one directory in the order ord lists them
Listing(S, ord) ==
  IF S = {} THEN <<>>
  ELSE LET first == CHOOSE c \in S :
                      \A d \in S : ord[c[Len(c)]] <= ord[d[Len(d)]]
       IN <<first>> \o Listing(S \ {first}, ord)

RECURSIVE DeepestFirst(_)
\* the paths of S, longest first: the order in which a subtree is emptied
DeepestFirst(S) ==
  IF S = {} THEN <<>>
  ELSE LET first == CHOOSE c \in S : \A d \in S : Len(c) >= Len(d)
       IN <<first>> \o DeepestFirst(S \ {first})

\* the running outcome of a call: the tree, the log lines written, the
\* exception raised ("none" when none), the return code, and (history) the
\* paths removed so far, in order
Logged(st, dry_run, msg, path) ==
  [st EXCEPT !.log = Append(@, [dry |-> dry_run, msg |-> msg, path |-> path])]

Raised(st, exc) == [st EXCEPT !.exc = exc]

\* why a path cannot be used as a directory
NotDirError(t, path) ==
  IF path \in DOMAIN t THEN "NotADirectoryError" ELSE "FileNotFoundError"

\* variant: removes the directory with everything in it
path_rmdir_all(st, path) ==
  IF ~is_dir(st.tree, path) THEN Raised(st, NotDirError(st.tree, path))
  ELSE [st EXCEPT !.tree = Without(@, {path} \cup Descendants(st.tree, path)),
                  !.removed = @ \o DeepestFirst({path} \cup
                                                Descendants(st.tree, path))]

\* pathlib.Path.rmdir(): removes an empty directory
path_rmdir(st, path) ==
  IF ~is_dir(st.tree, path) THEN Raised(st, NotDirError(st.tree, path))
  ELSE IF Children(st.tree, path) # {} THEN Raised(st, "NotEmpty")
  ELSE [st EXCEPT !.tree = Without(@, {path}), !.removed = Append(@, path)]

\* shutil.rmtree(path, ignore_errors)
rmtree(st, path, ignore_errors) ==
  IF ~is_dir(st.tree, path)
  THEN IF ignore_errors THEN st ELSE Raised(st, NotDirError(st.tree, path))
  ELSE [st EXCEPT !.tree = Without(@, {path} \cup Descendants(st.tree, path)),
                  !.removed = @ \o DeepestFirst({path} \cup
                                                Descendants(st.tree, path))]

RECURSIVE rmdir(_, _, _, _, _, _, _)
RECURSIVE rmdir_loop(_, _, _, _, _, _, _, _)

\* variant: the contents are removed destructively whatever force says
rmdir_forced(st, path, recurse, force, ignore_errors, dry_run, ord) ==
  IF dry_run THEN Logged(st, dry_run, "Removing directory", path)
  ELSE rmtree(st, path, ignore_errors)

\* FilesystemStorage.rmdir, lines 205-230
rmdir(st, path, recurse, force, ignore_errors, dry_run, ord) ==
  LET s1 == IF force
            THEN Logged(st, dry_run, "Forcing removal of files under", path)
            ELSE st
  IN IF force /\ ~dry_run
     THEN rmtree(s1, path, ignore_errors)
     ELSE LET s2 == IF ~recurse THEN s1
                    ELSE IF ~is_dir(s1.tree, path)
                         THEN Raised(s1, NotDirError(s1.tree, path))
                         ELSE rmdir_loop(s1, Listing(Children(s1.tree, path), ord),
                                         1, recurse, force, ignore_errors,
                                         dry_run, ord)
          IN IF s2.exc # "none" \/ s2.rc # 0 THEN s2
             ELSE LET s3 == Logged(s2, dry_run, "Removing directory", path)
                  IN IF dry_run THEN s3 ELSE path_rmdir(s3, path)

\* variant: the loop stops after the first subdirectory it removed
rmdir_loop_first(st, todo, i, recurse, force, ignore_errors, dry_run, ord) ==
  IF i > Len(todo) THEN st
  ELSE IF ~is_dir(st.tree, todo[i])
       THEN rmdir_loop(st, todo, i + 1, recurse, force, ignore_errors,
                       dry_run, ord)
       ELSE LET s1 == Logged(st, dry_run, "Removing directory", todo[i])
            IN IF dry_run
               THEN rmdir_loop(s1, todo, i + 1, recurse, force, ignore_errors,
                               dry_run, ord)
               ELSE rmdir(s1, todo[i], recurse, force, ignore_errors, FALSE, ord)

\* the loop over path.iterdir(), lines 214-226
rmdir_loop(st, todo, i, recurse, force, ignore_errors, dry_run, ord) ==
  IF i > Len(todo) THEN st
  ELSE IF ~is_dir(st.tree, todo[i])
       THEN rmdir_loop(st, todo, i + 1, recurse, force, ignore_errors,
                       dry_run, ord)
       ELSE LET s1 == Logged(st, dry_run, "Removing directory", todo[i])
            IN IF dry_run
               THEN rmdir_loop(s1, todo, i + 1, recurse, force, ignore_errors,
                               dry_run, ord)
               ELSE LET r == rmdir(s1, todo[i], recurse, force, ignore_errors,
                                   FALSE, ord)
                    IN IF r.exc # "none" \/ r.rc # 0 THEN r
                       ELSE rmdir_loop(r, todo, i + 1, recurse, force,
                                       ignore_errors, dry_run, ord)

\* the outcome a call starts from
Start(t) == [tree |-> t, log |-> <<>>, exc |-> "none", rc |-> 0, removed |-> <<>>]

NoOrder == [n \in Names |-> 0]

NoCall == [op |-> "none", path |-> <<>>, recurse |-> FALSE, force |-> FALSE,
           ignore_errors |-> FALSE, dry_run |-> FALSE, dirs |-> FALSE, absolute |-> FALSE,
           ord |-> NoOrder, before |-> <<>>,
           exc |-> "none", rc |-> 0, log |-> <<>>, removed |-> <<>>, out |-> <<>>]

\* a call of rmdir on an existing path; a call starts when the outcome of
\* the call before it has been taken
rmdir_call(path, recurse, force, ignore_errors, dry_run, ord) ==
  LET r == rmdir(Start(tree), path, recurse, force, ignore_errors, dry_run, ord)
  IN /\ last = NoCall
     /\ tree' = r.tree
     /\ last' = [op |-> "rmdir", path |-> path, recurse |-> recurse,
                 force |-> force, ignore_errors |-> ignore_errors,
                 dry_run |-> dry_run, dirs |-> FALSE, absolute |-> FALSE, ord |-> ord,
                 before |-> tree, exc |-> r.exc, rc |-> r.rc, log |-> r.log,
                 removed |-> r.removed, out |-> <<>>]
     /\ UNCHANGED <<wvars, rvars, pvars>>

\* variant: the file is unlinked whatever dry_run says
delete_file_always(st, path, dry_run) ==
  LET s1 == Logged(st, dry_run, "Removing file", path)
  IN IF path \notin DOMAIN s1.tree THEN Raised(s1, "FileNotFoundError")
     ELSE IF is_dir(s1.tree, path) THEN Raised(s1, "IsADirectoryError")
     ELSE [s1 EXCEPT !.tree = Without(@, {path}),
                     !.removed = Append(@, path)]

\* FilesystemStorage.delete_file, lines 177-185; unlink of a directory
\* fails (EISDIR)
delete_file(st, path, dry_run) ==
  LET s1 == Logged(st, dry_run, "Removing file", path)
  IN IF dry_run THEN s1
     ELSE IF path \notin DOMAIN s1.tree THEN Raised(s1, "FileNotFoundError")
     ELSE IF is_dir(s1.tree, path) THEN Raised(s1, "IsADirectoryError")
     ELSE [s1 EXCEPT !.tree = Without(@, {path}),
                     !.removed = Append(@, path)]

\* variant: no test for a missing path
delete_noexists(st, path, dry_run, ord) ==
  LET s1 == Logged(st, dry_run, "Deleting path", path)
  IN IF dry_run THEN s1
     ELSE IF is_file(s1.tree, path) THEN delete_file(s1, path, dry_run)
     ELSE rmdir(s1, path, FALSE, TRUE, FALSE, dry_run, ord)

\* Storage.delete, storage.py lines 166-180
delete(st, path, dry_run, ord) ==
  LET s1 == Logged(st, dry_run, "Deleting path", path)
  IN IF dry_run THEN s1
     ELSE IF path \notin DOMAIN s1.tree THEN s1
     ELSE IF is_file(s1.tree, path) THEN delete_file(s1, path, dry_run)
     ELSE rmdir(s1, path, FALSE, TRUE, FALSE, dry_run, ord)

\* the paths a call can be given: every existing path, the root, and the
\* missing entries of existing paths
CallPaths ==
  DOMAIN tree \cup {Root} \cup {p \o <<n>> : p \in DOMAIN tree, n \in Names}

delete_call(path, dry_run, ord) ==
  LET r == delete(Start(tree), path, dry_run, ord)
  IN /\ last = NoCall
     /\ tree' = r.tree
     /\ last' = [op |-> "delete", path |-> path, recurse |-> FALSE,
                 force |-> FALSE, ignore_errors |-> FALSE,
                 dry_run |-> dry_run, dirs |-> FALSE, absolute |-> FALSE, ord |-> ord,
                 before |-> tree, exc |-> r.exc, rc |-> r.rc, log |-> r.log,
                 removed |-> r.removed, out |-> <<>>]
     /\ UNCHANGED <<wvars, rvars, pvars>>

delete_file_call(path, dry_run) ==
  LET r == delete_file(Start(tree), path, dry_run)
  IN /\ last = NoCall
     /\ tree' = r.tree
     /\ last' = [op |-> "delete_file", path |-> path, recurse |-> FALSE,
                 force |-> FALSE, ignore_errors |-> FALSE,
                 dry_run |-> dry_run, dirs |-> FALSE, absolute |-> FALSE, ord |-> NoOrder,
                 before |-> tree, exc |-> r.exc, rc |-> r.rc, log |-> r.log,
                 removed |-> r.removed, out |-> <<>>]
     /\ UNCHANGED <<wvars, rvars, pvars>>

\* a pathlib path: absolute ("/root/a") or relative ("root/a"); the
\* current directory is "/", so both name the tree entry <<"root", "a">>
PurePath(absolute, parts) == [abs |-> absolute, parts |-> parts]

\* pathlib's p / q: an absolute right operand replaces the left one
Joined(p, q) ==
  IF q.abs THEN q ELSE PurePath(p.abs, p.parts \o q.parts)

\* the order of str on path components
NameRank == [n \in Names \cup {"root"} |->
               IF n = "a" THEN 1 ELSE IF n = "b" THEN 2 ELSE 3]

\* pathlib's p < q for paths of one kind: the order of their lists of parts
PathLess(p, q) ==
  \E k \in 1..(Len(q.parts)) :
    /\ k - 1 <= Len(p.parts)
    /\ SubSeq(p.parts, 1, k - 1) = SubSeq(q.parts, 1, k - 1)
    /\ \/ k > Len(p.parts)
       \/ NameRank[p.parts[k]] < NameRank[q.parts[k]]

RECURSIVE walk(_, _, _, _)
RECURSIVE walk_loop(_, _, _, _, _, _)

\* FilesystemStorage.walk, lines 35-48
walk(t, root, dirs, ord) ==
  walk_loop(t, root, Listing(Children(t, root.parts), ord), 1, dirs, ord)

\* the loop over root.iterdir(), lines 40-47
walk_loop(t, root, todo, i, dirs, ord) ==
  IF i > Len(todo) THEN <<>>
  ELSE LET pth == PurePath(root.abs, todo[i])
           sub == walk(t, pth, dirs, ord)
           here == IF is_dir(t, pth.parts)
                   THEN (IF dirs THEN <<pth>> ELSE <<>>) \o
                        [k \in 1..Len(sub) |-> Joined(pth, sub[k])]
                   ELSE <<pth>>
       IN here \o walk_loop(t, root, todo, i + 1, dirs, ord)

\* result.relative_to(root): the parts of result after those of root
relative_to(result, root) ==
  SubSeq(result.parts, Len(root.parts) + 1, Len(result.parts))

\* FilesystemStorage.find, lines 50-59: the lines of the string it returns
find(t, root, dirs, ord) ==
  LET results == SortSeq(walk(t, root, dirs, ord), PathLess)
  IN [k \in 1..Len(results) |-> relative_to(results[k], root)]

\* a call of find on a directory, named absolutely or relatively
find_call(path, absolute, dirs, ord) ==
  /\ last = NoCall
  /\ is_dir(tree, path)
  /\ last' = [op |-> "find", path |-> path, recurse |-> FALSE,
              force |-> FALSE, ignore_errors |-> FALSE,
              dry_run |-> FALSE, dirs |-> dirs, absolute |-> absolute,
              ord |-> ord, before |-> tree, exc |-> "none", rc |-> 0,
              log |-> <<>>, removed |-> <<>>,
              out |-> find(tree, PurePath(absolute, path), dirs, ord)]
  /\ UNCHANGED tree
  /\ UNCHANGED <<wvars, rvars, pvars>>

\* the call has returned and its caller has taken the outcome
call_returned ==
  /\ last # NoCall
  /\ last' = NoCall
  /\ UNCHANGED tree
  /\ UNCHANGED <<wvars, rvars, pvars>>

\* FilesystemStorage.mkdir and write_file build the tree
mkdir(parent, name) ==
  /\ is_dir(tree, parent)
  /\ parent \o <<name>> \notin DOMAIN tree
  /\ Cardinality(DOMAIN tree) <= MaxNodes
  /\ tree' = [q \in DOMAIN tree \cup {parent \o <<name>>} |->
                IF q \in DOMAIN tree THEN tree[q] ELSE "dir"]
  /\ last' = NoCall
  /\ UNCHANGED <<wvars, rvars, pvars>>

write_file(parent, name) ==
  /\ is_dir(tree, parent)
  /\ parent \o <<name>> \notin DOMAIN tree
  /\ Cardinality(DOMAIN tree) <= MaxNodes
  /\ tree' = [q \in DOMAIN tree \cup {parent \o <<name>>} |->
                IF q \in DOMAIN tree THEN tree[q] ELSE "file"]
  /\ last' = NoCall
  /\ UNCHANGED <<wvars, rvars, pvars>>

TInit ==
  /\ tree = [q \in {Root} |-> "dir"]
  /\ last = NoCall

TNext ==
  \/ \E parent \in DOMAIN tree, name \in Names : mkdir(parent, name)
  \/ \E parent \in DOMAIN tree, name \in Names : write_file(parent, name)
  \/ \E path \in DOMAIN tree, recurse, force, ignore_errors, dry_run \in BOOLEAN,
        ord \in NameOrders :
       rmdir_call(path, recurse, force, ignore_errors, dry_run, ord)
  \/ \E path \in CallPaths, dry_run \in BOOLEAN, ord \in NameOrders :
       delete_call(path, dry_run, ord)
  \/ \E path \in CallPaths, dry_run \in BOOLEAN : delete_file_call(path, dry_run)
  \/ \E path \in DOMAIN tree, absolute, dirs \in BOOLEAN, ord \in NameOrders :
       find_call(path, absolute, dirs, ord)
  \/ call_returned

(***************************************************************************)
(* Package paths: Storage.get_json_paths.  A package name is a sequence    *)
(* of characters; a path is a sequence of components, the last of which    *)
(* is a name.                                                              *)
(***************************************************************************)
MaxName == 3

Separators == {"-", "_", "."}

\* str.lower on the characters of the model
Lower == [c \in {"F", "f"} \cup Separators |-> IF c = "F" THEN "f" ELSE c]

Chars == DOMAIN Lower

PackageNames == UNION {[1..n -> Chars] : n \in 1..MaxName}

\* packaging.utils.canonicalize_name: re.sub(r"[-_.]+", "-", name).lower()
RECURSIVE canonicalize_name(_)
canonicalize_name(name) ==
  IF name = <<>> THEN <<>>
  ELSE IF name[1] \in Separators
       THEN IF Len(name) > 1 /\ name[2] \in Separators
            THEN canonicalize_name(Tail(name))
            ELSE <<"-">> \o canonicalize_name(Tail(name))
       ELSE <<Lower[name[1]]>> \o canonicalize_name(Tail(name))

\* Storage.canonicalize_package
canonicalize_package(name) == canonicalize_name(name)

\* pathlib's base / name for a name without a slash: a "." component is
\* dropped
PathJoin(base, name) ==
  IF name = <<".">> THEN base ELSE Append(base, name)

\* variant: the legacy path is always appended
get_json_paths_legacy(self, name) ==
  LET canonicalized_name == canonicalize_package(name)
  IN <<PathJoin(self.json_base_path, canonicalized_name),
       PathJoin(self.pypi_base_path, canonicalized_name),
       PathJoin(self.json_base_path, name)>>

\* Storage.get_json_paths
get_json_paths(self, name) ==
  LET canonicalized_name == canonicalize_package(name)
      paths == <<PathJoin(self.json_base_path, canonicalized_name),
                 PathJoin(self.pypi_base_path, canonicalized_name)>>
  IN IF canonicalized_name # name
     THEN Append(paths, PathJoin(self.json_base_path, name))
     ELSE paths

\* no get_json_paths call
NoPaths == [self |-> Storage_init("filesystem", 0), name |-> <<>>,
            called |-> FALSE, paths |-> <<>>]

get_json_paths_call ==
  /\ ~jp.called
  /\ jp' = [jp EXCEPT !.called = TRUE,
                      !.paths = get_json_paths(jp.self, jp.name)]
  /\ UNCHANGED <<wvars, rvars, tvars>>

PIdle == jp = NoPaths

\* a set-up instance and a package name
PInit == \E name \in PackageNames : jp = [NoPaths EXCEPT !.name = name]

PNext == get_json_paths_call

(***************************************************************************)
(* Initial state: the target is absent, or holds some content.             *)
(***************************************************************************)
WInit ==
  /\ \E c \in Contents, m \in InitModes, e \in BOOLEAN :
       IF e
       THEN /\ inodes = <<[content |-> c, mode |-> m]>>
            /\ fs = [q \in {Target} |-> 1]
       ELSE /\ inodes = <<>>
            /\ fs = [q \in {} |-> 0]
            /\ c = <<"x">> /\ m = 416
  /\ proc = [p \in Writers |-> IdleProc]
  /\ hist = [p \in Writers |-> IdleHist]
  /\ renames = <<>>
  /\ rd = [pc |-> "idle", fd |-> 0, buf |-> <<>>]
  /\ orig = Snap(Target)

\* the target is absent and no writer has started
WIdle ==
  /\ inodes = <<>>
  /\ fs = [q \in {} |-> 0]
  /\ proc = [p \in Writers |-> IdleProc]
  /\ hist = [p \in Writers |-> IdleHist]
  /\ renames = <<>>
  /\ rd = [pc |-> "idle", fd |-> 0, buf |-> <<>>]
  /\ orig = Snap(Target)

Init == WInit /\ RInit /\ TInit /\ PIdle

WNext ==
  \/ \E p \in Writers : rewrite_enter(p)
  \/ \E p \in Writers : update_safe_enter(p)
  \/ \E p \in Writers : update_safe_chmod(p)
  \/ \E p \in Writers : block_write(p)
  \/ \E p \in Writers : block_delete(p)
  \/ \E p \in Writers : block_exit(p)
  \/ \E p \in Writers : rewrite_exists(p)
  \/ \E p \in Writers : rewrite_chmod(p)
  \/ \E p \in Writers : update_safe_exists(p)
  \/ \E p \in Writers : update_safe_compare(p)
  \/ \E p \in Writers : update_safe_unlink(p)
  \/ \E p \in Writers : copy_file_exists(p)
  \/ \E p \in Writers : copy_file_rename(p)
  \/ reader_open("r1")
  \/ reader_read("r1")

Next == WNext

Spec == Init /\ [][Next]_vars

\* the registry on its own
RegistryInit == WIdle /\ RInit /\ TInit /\ PIdle

RegistryNext == RNext

RegistrySpec == RegistryInit /\ [][RegistryNext]_vars

\* directory removal on its own
TreeInit == WIdle /\ RInit /\ TInit /\ PIdle

TreeNext == TNext

TreeSpec == TreeInit /\ [][TreeNext]_vars

\* package paths on their own
PathInit == WIdle /\ RInit /\ TInit /\ PInit

PathNext == PNext

PathSpec == PathInit /\ [][PathNext]_vars


(***************************************************************************)
(* Properties of the atomic write protocol.                                *)
(***************************************************************************)
\* the step writer p can take
WStep(p) ==
  \/ update_safe_chmod(p) \/ block_write(p) \/ block_delete(p)
  \/ block_exit(p) \/ rewrite_exists(p) \/ rewrite_chmod(p)
  \/ update_safe_exists(p) \/ update_safe_compare(p)
  \/ update_safe_unlink(p) \/ copy_file_exists(p) \/ copy_file_rename(p)

\* inode i holds a complete content: all of what the writer that created it
\* wrote, or what the target held initially
Complete(i) ==
  IF \E p \in Writers : proc[p].fd = i
  THEN \E p \in Writers : proc[p].fd = i /\ inodes[i].content = proc[p].data
  ELSE orig.exists /\ i = orig.ino /\ inodes[i].content = orig.content

\* the call of p ran with no other writer active: every other writer
\* finished before p started or has not started yet
Alone(p) ==
  \A q \in Writers \ {p} : proc[q].pc = "idle" \/ q \in hist[p].after

\* C1: whatever writers and the reader do, the target names only complete
\* files, and a reader that opened the target by name has read either the
\* complete initial content or all of what one writer wrote (or found the
\* target absent when it never existed).
C1_ReadersSeeCompleteFiles ==
  /\ exists(Target) => Complete(fs[Target])
  /\ rd.pc = "reading" => Complete(rd.fd)
  /\ rd.pc = "done" =>
       IF rd.fd = 0 THEN ~orig.exists
       ELSE Complete(rd.fd) /\ rd.buf = inodes[rd.fd].content

\* a reader has read to the end what one writer put in place while the
\* other writer had a partly written temporary file
C1_Witness ==
  \E p, q \in Writers :
    /\ rd.pc = "done" /\ rd.fd = proc[p].fd /\ rd.fd # 0
    /\ proc[q].pc = "block"
    /\ exists(proc[q].tmp)
    /\ inodes[proc[q].fd].content # proc[q].data
    /\ inodes[proc[q].fd].content # <<>>

\* C2: a rewrite call that ran alone and whose block wrote X without
\* deleting the temporary file has, once it returned, put X in the target;
\* when the block deleted the temporary file the call returns without an
\* error and the target is what it was before the call.
C2_RewriteResult ==
  \A p \in Writers :
    (proc[p].op = "rewrite" /\ Alone(p) /\ proc[p].pc \notin {"idle", "block"}) =>
      IF hist[p].deleted
      THEN proc[p].pc \in {"rw_exists", "done"} /\ Snap(Target) = hist[p].pre
      ELSE proc[p].pc = "done" =>
             Snap(Target).exists /\ Snap(Target).content = proc[p].data

\* one rewrite returned after its block deleted the temporary file, then a
\* second one replaced the existing target by different content
C2_Witness ==
  \E p, q \in Writers :
    /\ q \in hist[p].after
    /\ proc[q].op = "rewrite" /\ proc[q].pc = "done" /\ hist[q].deleted
    /\ proc[p].op = "rewrite" /\ proc[p].pc = "done" /\ ~hist[p].deleted
    /\ hist[p].pre.exists /\ hist[p].pre.content # proc[p].data
    /\ Snap(Target).content = proc[p].data

\* C3: an update_safe call that ran alone on an existing target holding
\* exactly what the block wrote ends without a rename: it returns, the
\* target has the content, mode and inode it had, the temporary file is
\* gone and has_changed is False.
C3_IdenticalContentIsSuppressed ==
  \A p \in Writers :
    (/\ proc[p].op = "update_safe" /\ Alone(p) /\ proc[p].pc \in Terminal
     /\ ~hist[p].deleted
     /\ hist[p].pre.exists /\ hist[p].pre.content = proc[p].data) =>
      /\ proc[p].pc = "done"
      /\ ~hist[p].renamed
      /\ Snap(Target) = hist[p].pre
      /\ ~exists(proc[p].tmp)
      /\ proc[p].has_changed = "False"

C3_Witness ==
  \E p \in Writers :
    /\ proc[p].op = "update_safe" /\ Alone(p) /\ proc[p].pc = "done"
    /\ ~hist[p].deleted
    /\ hist[p].pre.exists /\ hist[p].pre.content = proc[p].data
    /\ Len(proc[p].data) = MaxLen

\* C4: of two successive update_safe calls that both write X, the first, on
\* a target that was absent or held other content, reports has_changed True
\* and leaves X in the target; the second reports has_changed False, makes
\* no rename and leaves no temporary file.
C4_SecondUpdateIsNoop ==
  \A p, q \in Writers :
    (/\ p # q /\ hist[p].after = {} /\ p \in hist[q].after
     /\ proc[p].op = "update_safe" /\ proc[q].op = "update_safe"
     /\ proc[p].data = proc[q].data
     /\ ~hist[p].deleted /\ ~hist[q].deleted
     /\ proc[p].pc = "done" /\ proc[q].pc \in Terminal
     /\ (~hist[p].pre.exists \/ hist[p].pre.content # proc[p].data)) =>
      /\ proc[p].has_changed = "True"
      /\ hist[q].pre.exists /\ hist[q].pre.content = proc[p].data
      /\ proc[q].pc = "done"
      /\ proc[q].has_changed = "False"
      /\ ~hist[q].renamed
      /\ ~exists(proc[q].tmp) /\ ~exists(proc[p].tmp)
      /\ Snap(Target) = hist[q].pre

C4_Witness ==
  \E p, q \in Writers :
    /\ p # q /\ hist[p].after = {} /\ p \in hist[q].after
    /\ proc[p].op = "update_safe" /\ proc[q].op = "update_safe"
    /\ proc[p].data = proc[q].data
    /\ ~hist[p].deleted /\ ~hist[q].deleted
    /\ proc[p].pc = "done" /\ proc[q].pc = "done"
    /\ hist[p].pre.exists /\ hist[p].pre.content # proc[p].data

\* C5: a call ends with an error only when os.rename failed; then the
\* temporary file is still there, the call made no rename, took no further
\* step, and, when it ran alone, the target is what it was before the call.
C5_FailedRenameLeavesTemp ==
  \A p \in Writers :
    proc[p].pc = "raised" =>
      /\ proc[p].err = "OSError"
      /\ exists(proc[p].tmp)
      /\ dirname(proc[p].tmp) = dirname(Target)
      /\ ~hist[p].renamed
      /\ ~ENABLED WStep(p)
      /\ Alone(p) => Snap(Target) = hist[p].pre

\* both operations have failed in os.rename, one of them on an existing target
C5_Witness ==
  \E p, q \in Writers :
    /\ proc[p].pc = "raised" /\ proc[p].op = "rewrite"
    /\ proc[q].pc = "raised" /\ proc[q].op = "update_safe"
    /\ orig.exists /\ Snap(Target) = orig

\* the precondition of C9 on a writer: rewrite, or update_safe with content
\* other than the target's
C9_Writes(p) ==
  /\ ~hist[p].deleted
  /\ \/ proc[p].op = "rewrite"
     \/ /\ proc[p].op = "update_safe"
        /\ (~orig.exists \/ orig.content # proc[p].data)

\* C9: two concurrent writers are never blocked and fail only when
\* os.rename fails; once both have returned, the target is the file of the
\* writer whose rename came last, with all of that writer's content.
C9_LastRenameWins ==
  /\ \A p \in Writers :
       /\ proc[p].pc \notin Terminal \cup {"idle"} => ENABLED WStep(p)
       /\ proc[p].pc = "raised" => proc[p].err = "OSError"
  /\ (\A p \in Writers : proc[p].pc = "done" /\ C9_Writes(p)) =>
       /\ renames # <<>>
       /\ Snap(Target).exists
       /\ Snap(Target).ino = proc[renames[Len(renames)]].fd
       /\ Snap(Target).content = proc[renames[Len(renames)]].data

\* both writers ran concurrently, both renamed, with different contents
C9_Witness ==
  /\ \A p \in Writers : proc[p].pc = "done" /\ C9_Writes(p) /\ hist[p].after = {}
  /\ Len(renames) = 2
  /\ proc["w1"].data # proc["w2"].data

(***************************************************************************)
(* Properties of the plugin registry.                                      *)
(***************************************************************************)
\* C6: for every identifier, discovery runs at most once over all the
\* load_storage_plugins calls made.
C6_DiscoveryAtMostOnce ==
  \A g \in Groups :
    Cardinality({k \in DOMAIN calls :
                   calls[k].group = g /\ calls[k].discovered}) <= 1

\* C7: two calls for the same identifier return the same set of instances.
C7_SameSetTwice ==
  \A j, k \in DOMAIN calls :
    calls[j].group = calls[k].group => calls[j].result = calls[k].result

\* the discovery that instantiated instance i
DiscoveryOf(i) == CHOOSE j \in DOMAIN calls : calls[j].serial = i.serial

\* C8: every instance returned by a call or held in the cache for an
\* identifier was instantiated by a discovery of that identifier and has
\* the name that was the configured backend name (or "filesystem" when none
\* was configured) at that discovery.
C8_OnlyConfiguredName ==
  /\ \A k \in DOMAIN calls : \A i \in calls[k].result :
       /\ \E j \in 1..k : calls[j].discovered /\ calls[j].serial = i.serial
       /\ calls[DiscoveryOf(i)].group = calls[k].group
       /\ i.name = calls[DiscoveryOf(i)].enabled
  /\ \A g \in DOMAIN loaded_storage_plugins :
       \A i \in loaded_storage_plugins[g] :
         /\ \E j \in DOMAIN calls : calls[j].discovered /\ calls[j].serial = i.serial
         /\ calls[DiscoveryOf(i)].group = g
         /\ i.name = calls[DiscoveryOf(i)].enabled

\* a cached instance was returned after the configuration had changed, and
\* its discovery had instantiated a plugin of another name as well; another
\* discovery ran with no storage_backend configured
C8_Witness ==
  \E j, k, d \in DOMAIN calls :
    /\ j < k /\ calls[j].discovered /\ calls[j].scanned = Cardinality(Classes)
    /\ ~calls[k].discovered /\ calls[k].group = calls[j].group
    /\ calls[k].enabled # calls[j].enabled
    /\ calls[k].result # {}
    /\ calls[d].discovered /\ calls[d].result # {} /\ config = "unset"
    /\ calls[d].enabled = "filesystem"

(***************************************************************************)
(* Properties of rmdir.                                                    *)
(***************************************************************************)
\* t has, at or below path, a directory without subdirectories that holds
\* a regular file
HasNonEmptyLeaf(t, path) ==
  \E d \in {path} \cup Descendants(t, path) :
    /\ is_dir(t, d)
    /\ \E f \in Children(t, d) : t[f] = "file"
    /\ \A c \in Children(t, d) : t[c] = "file"

\* the last call was rmdir(root, recurse=True, force=False), not a dry run,
\* on a directory whose tree has a non-empty leaf directory
C10_Case ==
  /\ last.op = "rmdir" /\ last.recurse /\ ~last.force /\ ~last.dry_run
  /\ is_dir(last.before, last.path)
  /\ HasNonEmptyLeaf(last.before, last.path)

\* C10 as stated: the call fails with NotEmpty and the tree is as before.
C10_TreeIntact ==
  C10_Case => last.exc = "NotEmpty" /\ tree = last.before

\* C10 amended: the call fails with NotEmpty; no regular file and no
\* directory with a regular file at any depth beneath it is removed, and
\* nothing is created; directories with no file beneath them may be gone.
C10_FilesAndTheirAncestorsKept ==
  C10_Case =>
    /\ last.exc = "NotEmpty"
    /\ DOMAIN tree \subseteq DOMAIN last.before
    /\ \A q \in DOMAIN tree : tree[q] = last.before[q]
    /\ \A q \in DOMAIN last.before :
         (\/ last.before[q] = "file"
          \/ \E f \in Descendants(last.before, q) : last.before[f] = "file")
           => q \in DOMAIN tree

\* the call failed after it had removed an empty directory next to the
\* non-empty one
C10_Witness ==
  /\ C10_Case
  /\ last.exc = "NotEmpty"
  /\ tree # last.before
  /\ \E f \in DOMAIN tree : tree[f] = "file"

\* every path of t at or below path is a directory
OnlyDirectories(t, path) ==
  \A q \in {path} \cup Descendants(t, path) : is_dir(t, q)

\* C11: rmdir(root, recurse=True), not a dry run, on a tree of directories
\* only returns 0 without an error and leaves neither root nor any of its
\* descendants.
C11_TreeOfDirectoriesIsRemoved ==
  (/\ last.op = "rmdir" /\ last.recurse /\ ~last.dry_run
   /\ OnlyDirectories(last.before, last.path)) =>
     /\ last.exc = "none" /\ last.rc = 0
     /\ last.path \notin DOMAIN tree
     /\ Descendants(tree, last.path) = {}
     /\ \A q \in DOMAIN last.before :
          (q # last.path /\ ~IsUnder(q, last.path)) =>
            q \in DOMAIN tree /\ tree[q] = last.before[q]

\* a tree with two subdirectories, or with a directory two levels down, has
\* been removed without force
C11_Witness ==
  /\ last.op = "rmdir" /\ last.recurse /\ ~last.dry_run /\ ~last.force
  /\ OnlyDirectories(last.before, last.path)
  /\ Cardinality(Descendants(last.before, last.path)) >= 2
  /\ last.path \notin DOMAIN tree

\* C12: with dry_run=True, delete and delete_file on any path and rmdir on
\* a directory, with every combination of recurse, force and ignore_errors,
\* remove nothing, change nothing and return 0 without an error.
C12_DryRunChangesNothing ==
  (last.op \in {"delete", "delete_file", "rmdir"} /\ last.dry_run) =>
     /\ tree = last.before
     /\ last.removed = <<>>
     /\ (last.op = "rmdir" => is_dir(last.before, last.path)) =>
          last.exc = "none" /\ last.rc = 0

\* a dry run of delete_file was made on an existing file
C12_Witness ==
  /\ last.op = "delete_file" /\ last.dry_run
  /\ is_file(last.before, last.path)
  /\ last.rc = 0 /\ last.exc = "none"

\* C13: delete of a path that does not exist returns 0 without an error and
\* changes nothing, as a dry run and as a real run.
C13_DeleteMissingIsNoop ==
  (last.op = "delete" /\ last.path \notin DOMAIN last.before) =>
     /\ last.exc = "none" /\ last.rc = 0
     /\ tree = last.before
     /\ last.removed = <<>>

\* a real delete of a missing path in a tree that holds other entries
C13_Witness ==
  /\ last.op = "delete" /\ ~last.dry_run
  /\ last.path \notin DOMAIN last.before
  /\ last.path # Root
  /\ Cardinality(DOMAIN tree) >= 3

\* C14: get_json_paths(N) returns json_root/C then pypi_json_root/C, where
\* C is the canonical form of N, followed by json_root/N exactly when
\* C # N; the instance and every other part of the state are as before.
C14_JsonPaths ==
  jp.called =>
    LET N == jp.name
        C == canonicalize_name(N)
        json_root == MirrorDirectory \o <<"web", "json">>
        pypi_json_root == MirrorDirectory \o <<"web", "pypi">>
    IN /\ jp.paths[1] = PathJoin(json_root, C)
       /\ jp.paths[2] = PathJoin(pypi_json_root, C)
       /\ Len(jp.paths) = (IF C # N THEN 3 ELSE 2)
       /\ C # N => jp.paths[3] = PathJoin(json_root, N)
       /\ jp.self = Storage_init("filesystem", 0)
       /\ WIdle /\ RInit /\ TInit

\* a call with a name that has an upper-case letter and a run of separators
C14_Witness ==
  /\ jp.called
  /\ Len(jp.paths) = 3
  /\ Len(canonicalize_name(jp.name)) < Len(jp.name)
  /\ \E i \in 1..Len(jp.name) : jp.name[i] = "F"

\* the paths of the "Removing directory" lines of a log, in order
RemovalsLogged(log) ==
  LET lines == SelectSeq(log, LAMBDA l : l.msg = "Removing directory")
  IN [i \in 1..Len(lines) |-> lines[i].path]

\* C15: rmdir(path, recurse=True, dry_run=True) on a tree of directories
\* removes nothing and logs an intended removal for exactly the directories
\* the same call with dry_run=False removes, in the same order.
C15_DryRunWalksLikeRealRun ==
  (/\ last.op = "rmdir" /\ last.recurse /\ last.dry_run /\ ~last.force
   /\ OnlyDirectories(last.before, last.path)) =>
     /\ tree = last.before
     /\ RemovalsLogged(last.log) =
          rmdir(Start(last.before), last.path, TRUE, FALSE,
                last.ignore_errors, FALSE, last.ord).removed

\* C16: rmdir without force, with recurse True or False and whatever the
\* outcome, removes only directories, each empty at the moment of its
\* removal, descendants before their ancestors; everything it removes is
\* path or beneath it, and path, when removed, is removed last.
C16_OnlyEmptyDirectoriesBottomUp ==
  (last.op = "rmdir" /\ ~last.force) =>
     LET rem == last.removed
         gone(i) == {rem[j] : j \in 1..(i - 1)}
     IN /\ \A i \in 1..Len(rem) :
             /\ is_dir(last.before, rem[i])
             /\ rem[i] = last.path \/ IsUnder(rem[i], last.path)
             /\ Descendants(last.before, rem[i]) \subseteq gone(i)
             /\ rem[i] = last.path => i = Len(rem)
        /\ \A i, j \in 1..Len(rem) : rem[i] = rem[j] => i = j
        /\ DOMAIN tree = DOMAIN last.before \ gone(Len(rem) + 1)
        /\ \A q \in DOMAIN tree : tree[q] = last.before[q]
        /\ \A q \in DOMAIN last.before : is_file(last.before, q) => q \in DOMAIN tree

\* a recursive removal that removed a directory at depth 2, then its parent,
\* then path, from a tree with two levels below path
C16_Witness ==
  /\ last.op = "rmdir" /\ ~last.force /\ last.recurse /\ ~last.dry_run
  /\ Len(last.removed) = 3
  /\ IsUnder(last.removed[1], last.removed[2])
  /\ last.removed[3] = last.path

\* C17: an update_safe call that ran alone and replaced an existing target
\* leaves the target with the permission bits it had when the call started
\* (and with the content the block wrote).
C17_PermissionBitsPreserved ==
  \A p \in Writers :
    (/\ proc[p].op = "update_safe" /\ Alone(p) /\ proc[p].pc = "done"
     /\ hist[p].pre.exists /\ hist[p].renamed) =>
      /\ exists(Target)
      /\ Snap(Target).mode % PermMask = hist[p].pre.mode % PermMask
      /\ Snap(Target).content = proc[p].data

\* an update_safe call replaced a target whose permission bits differ from
\* those a temporary file is created with
C17_Witness ==
  \E p \in Writers :
    /\ proc[p].op = "update_safe" /\ Alone(p) /\ proc[p].pc = "done"
    /\ hist[p].pre.exists /\ hist[p].renamed
    /\ hist[p].pre.content # proc[p].data
    /\ hist[p].pre.mode % PermMask # TmpMode

\* C18: the temporary file of every rewrite and update_safe call, while it
\* exists, is in the target's directory, has a name that starts with "."
\* followed by the target's basename, and is not the target.
C18_TempIsHiddenSibling ==
  \A p \in Writers :
    (proc[p].op \in {"rewrite", "update_safe"} /\ exists(proc[p].tmp)) =>
      LET name == basename(proc[p].tmp)
          base == basename(Target)
      IN /\ dirname(proc[p].tmp) = dirname(Target)
         /\ proc[p].tmp # Target
         /\ Len(name) > Len(base)
         /\ name[1] = "."
         /\ SubSeq(name, 2, Len(base) + 1) = base

\* what find is to list: the paths, relative to path, of the entries of
\* tree t beneath path, directories included when dirs is true
Expected(t, path, dirs) ==
  {SubSeq(q, Len(path) + 1, Len(q)) :
     q \in {d \in Descendants(t, path) : dirs \/ is_file(t, d)}}

\* C19: find(root, dirs), for an absolute or a relative root, lists every
\* entry beneath root exactly once as its path relative to root, in sorted
\* order, directories included exactly when dirs is true, and nothing else.
C19_FindListsEachEntryOnce ==
  last.op = "find" =>
    LET out == last.out
    IN /\ {out[k] : k \in 1..Len(out)} =
            Expected(last.before, last.path, last.dirs)
       /\ \A i, j \in 1..Len(out) : out[i] = out[j] => i = j
       /\ \A i, j \in 1..Len(out) :
            i < j => PathLess(PurePath(FALSE, out[i]), PurePath(FALSE, out[j]))

\* instance i has the mirror root and the four derived paths, and
\* initialize_plugin ran on it once
SetUp(i) ==
  /\ i.bound
  /\ i.mirror_base_path = MirrorDirectory
  /\ i.web_base_path = <<"M", "web">>
  /\ i.json_base_path = <<"M", "web", "json">>
  /\ i.pypi_base_path = <<"M", "web", "pypi">>
  /\ i.simple_base_path = <<"M", "web", "simple">>
  /\ i.initialized = 1

\* instance i has none of the paths, and initialize_plugin never ran on it
Inert(i) ==
  /\ ~i.bound
  /\ i.mirror_base_path = <<>> /\ i.web_base_path = <<>>
  /\ i.json_base_path = <<>> /\ i.pypi_base_path = <<>>
  /\ i.simple_base_path = <<>>
  /\ i.initialized = 0

\* C20: an instance constructed while its name is not the configured
\* backend name ("filesystem" when none is configured) gets no setup; one
\* constructed while its name is the configured name gets the root, the
\* four derived paths and one initialize_plugin; every instance returned by
\* the registry or held in its cache is set up.
C20_SetUpOnlyWhenConfigured ==
  /\ \A k \in DOMAIN calls :
       /\ \A i \in calls[k].made :
            IF i.name = calls[k].enabled THEN SetUp(i) ELSE Inert(i)
       /\ \A i \in calls[k].result : SetUp(i)
  /\ \A g \in DOMAIN loaded_storage_plugins :
       \A i \in loaded_storage_plugins[g] : SetUp(i)

\* a discovery with a configured backend name constructed an instance of
\* each class and returned one; a later call returned it from the cache
C20_Witness ==
  \E j, k \in DOMAIN calls :
    /\ j < k
    /\ calls[j].discovered /\ calls[j].enabled = "swift"
    /\ Cardinality(calls[j].made) = Cardinality(Classes)
    /\ calls[j].result # {}
    /\ ~calls[k].discovered /\ calls[k].result = calls[j].result

\* C21: once rewrite or update_safe has returned without raising, whether
\* the caller deleted the temporary file, the content was identical and the
\* update suppressed, or the temporary file was renamed onto the target,
\* no file exists under the temporary name the call created.
C21_NoTempAfterReturn ==
  \A p \in Writers :
    proc[p].pc = "done" =>
      /\ proc[p].tmp # NoPath
      /\ ~exists(proc[p].tmp)
      /\ \/ hist[p].deleted
         \/ hist[p].renamed
         \/ /\ proc[p].op = "update_safe" /\ proc[p].has_changed = "False"
            /\ exists(Target)

\* two calls have returned, one after a rename onto the target and one
\* after an update suppressed for identical content
C21_Witness ==
  \E p, q \in Writers :
    /\ proc[p].pc = "done" /\ proc[p].op = "rewrite"
    /\ hist[p].renamed /\ ~hist[p].deleted
    /\ proc[q].pc = "done" /\ proc[q].op = "update_safe"
    /\ ~hist[q].renamed /\ ~hist[q].deleted

====
